---- MODULE Spec2Model ----
(***************************************************************************)
(* Model of the keephy_organizations service: four document collections    *)
(* (Organization, Brand, Business, Franchise) behind the REST handlers of  *)
(* the service, the schema methods checkLimit and isOpen, and the          *)
(* multi-query hierarchy endpoint.                                         *)
(*                                                                         *)
(* A request body is a record whose DOMAIN is the set of keys present in   *)
(* the JSON payload; a stored document is the raw document of the store    *)
(* (a nested object written by an update may lack sub-keys); a document    *)
(* handed to a caller is hydrated (schema defaults fill absent paths).     *)
(***************************************************************************)
EXTENDS Integers, Sequences, FiniteSets, TLC

(* ---------------------------- bounds ----------------------------------- *)

\* documents per collection
MaxDocs == 2
\* documents in the store, all collections together
MaxStore == 3
\* children of the entity whose limit is checked
MaxChildren == 3
\* last value of the millisecond clock
MaxClock == 1

(* ----------------------- values of the program ------------------------- *)

\* JavaScript null (the "unlimited" sentinel of the limits fields)
NULL == -1
\* a route parameter or reference that is not a well-formed ObjectId
BADID == -2
\* JavaScript undefined, as the value of an unpopulated virtual
UNDEF == -3

\* schema defaults
DefaultOrgBrands == 1
DefaultOrgBusinesses == 5
DefaultBrandBusinesses == 10
DefaultBusinessFranchises == 1
DefaultBusinessStaff == 5

Industries == {"restaurant", "hotel", "retail", "healthcare", "education",
               "fitness", "beauty", "automotive", "real_estate", "other"}

Monday == <<"m", "o", "n", "d", "a", "y">>
Tuesday == <<"t", "u", "e", "s", "d", "a", "y">>
Wednesday == <<"w", "e", "d", "n", "e", "s", "d", "a", "y">>
Thursday == <<"t", "h", "u", "r", "s", "d", "a", "y">>
Friday == <<"f", "r", "i", "d", "a", "y">>
Saturday == <<"s", "a", "t", "u", "r", "d", "a", "y">>
Sunday == <<"s", "u", "n", "d", "a", "y">>
\* the keys of settings.operatingHours, as character sequences
DayKeys == {Monday, Tuesday, Wednesday, Thursday, Friday, Saturday, Sunday}

VARIABLES
    orgs,        \* the Organization collection: a set of raw documents
    brands,      \* the Brand collection
    businesses,  \* the Business collection
    franchises,  \* the Franchise collection
    clock,       \* Date.now(), in milliseconds
    resp,        \* the last response the service sent
    hier,        \* the hierarchy request in flight and its reads so far
    hist,        \* history of the hierarchy request: what the store held for its
                 \* organization while it ran, and the collections it queried
    call,        \* the last call of a schema method (checkLimit, isOpen), its result
    fault,       \* the error the database raises on a query now, or none
    read         \* the read of organizations in flight: the documents found and
                 \* the populates still to come

vars == <<orgs, brands, businesses, franchises, clock, resp, hier, hist, call, fault, read>>

\* the database answers queries
NoFault == "none"
store == <<orgs, brands, businesses, franchises>>

(* ------------------------------ helpers -------------------------------- *)

Has(r, k) == k \in DOMAIN r
Get(r, k, d) == IF k \in DOMAIN r THEN r[k] ELSE d
\* r.k.s of a body or raw document, d when the path is absent
Get2(r, k, s, d) == IF k \in DOMAIN r THEN Get(r[k], s, d) ELSE d

\* a "required: true" String path holds a non-empty string
RequiredStr(r, k) == Has(r, k) /\ r[k] # ""
RequiredStr2(r, k, s) == Has(r, k) /\ RequiredStr(r[k], s)
\* a "required: true" ObjectId path holds a value that casts to ObjectId
RequiredId(r, k) == Has(r, k) /\ r[k] # NULL /\ r[k] # BADID

\* a value casts to ObjectId
CastsToObjectId(v) == v # BADID

\* the response of a handler: res.status(status).json({success, error | data})
\* op, kind and id name the route and its parameter
Response(op, kind, id, status, error, data) ==
    [op |-> op, kind |-> kind, id |-> id, status |-> status,
     success |-> status < 400, error |-> error, data |-> data]
NoResponse == Response("none", "none", NULL, 0, "", {})

\* the document of collection coll with this _id, as a set of zero or one
ById(coll, id) == {d \in coll : d._id = id}

\* a new ObjectId: unique in its collection
NewId(coll) == Cardinality(coll) + 1

StoreSize ==
    Cardinality(orgs) + Cardinality(brands) + Cardinality(businesses)
        + Cardinality(franchises)

(* --------------------------- the schemas ------------------------------- *)

\* new Organization(body): casting plus the schema defaults
\* the setters of domain {lowercase: true, trim: true}, on a string held as
\* its characters: String.prototype.trim, then toLowerCase on the letters the
\* inputs hold
Trim(chars) ==
    LET kept == {i \in DOMAIN chars : chars[i] # " "}
    IN  IF kept = {} THEN <<>>
        ELSE SubSeq(chars, CHOOSE i \in kept : \A j \in kept : i <= j,
                           CHOOSE i \in kept : \A j \in kept : j <= i)
ToLowerCase(chars) ==
    [i \in DOMAIN chars |-> CASE chars[i] = "D" -> "d" [] OTHER -> chars[i]]
CastDomain(chars) == ToLowerCase(Trim(chars))

OrganizationDoc(body, id, now) ==
    LET doc == [_id |-> id,
                name |-> body.name,
                contact |-> body.contact,
                settings |-> [timezone |-> Get2(body, "settings", "timezone", "UTC"),
                              currency |-> Get2(body, "settings", "currency", "USD")],
                limits |-> [brands |-> Get2(body, "limits", "brands", DefaultOrgBrands),
                            businesses |-> Get2(body, "limits", "businesses",
                                                DefaultOrgBusinesses)],
                isActive |-> Get(body, "isActive", TRUE),
                createdAt |-> Get(body, "createdAt", now),
                updatedAt |-> Get(body, "updatedAt", now)]
    IN  IF Has(body, "domain")
        THEN [k \in DOMAIN doc \cup {"domain"} |->
                 IF k = "domain" THEN CastDomain(body.domain) ELSE doc[k]]
        ELSE doc

\* the key of a document in the unique index of domain (unique: true, not
\* sparse): a document without a domain is indexed under null
NoDomain == <<"null">>
DomainKey(d) == IF Has(d, "domain") THEN d.domain ELSE NoDomain

\* the insert or update of doc is rejected with E11000: another organization
\* has its key in the unique index
DuplicateDomain(coll, doc) ==
    \E o \in coll : o._id # doc._id /\ DomainKey(o) = DomainKey(doc)

\* organization.validate(): the required paths
OrganizationValid(body) ==
    RequiredStr(body, "name") /\ RequiredStr2(body, "contact", "email")

\* new Brand(body)
BrandDoc(body, id, now) ==
    [_id |-> id,
     name |-> body.name,
     organizationId |-> body.organizationId,
     limits |-> [businesses |-> Get2(body, "limits", "businesses", DefaultBrandBusinesses)],
     isActive |-> Get(body, "isActive", TRUE),
     createdAt |-> Get(body, "createdAt", now),
     updatedAt |-> Get(body, "updatedAt", now)]

BrandValid(body) ==
    RequiredStr(body, "name") /\ RequiredId(body, "organizationId")

\* new Business(body); subscription.limits is the limits of a Business
BusinessDoc(body, id, now) ==
    [_id |-> id,
     name |-> body.name,
     organizationId |-> body.organizationId,
     brandId |-> Get(body, "brandId", NULL),
     ownerId |-> body.ownerId,
     industry |-> body.industry,
     contact |-> body.contact,
     subscription |->
         [limits |-> [franchises |-> IF Has(body, "subscription")
                                     THEN Get2(body.subscription, "limits", "franchises",
                                               DefaultBusinessFranchises)
                                     ELSE DefaultBusinessFranchises,
                      staff |-> IF Has(body, "subscription")
                                THEN Get2(body.subscription, "limits", "staff",
                                          DefaultBusinessStaff)
                                ELSE DefaultBusinessStaff]],
     isActive |-> Get(body, "isActive", TRUE),
     createdAt |-> Get(body, "createdAt", now),
     updatedAt |-> Get(body, "updatedAt", now)]

BusinessValid(body) ==
    /\ RequiredStr(body, "name")
    /\ RequiredId(body, "organizationId")
    /\ CastsToObjectId(Get(body, "brandId", NULL))
    /\ RequiredId(body, "ownerId")
    /\ Has(body, "industry") /\ body.industry \in Industries
    /\ RequiredStr2(body, "contact", "email")

\* settings.operatingHours of a new Franchise: every day has closed = false,
\* open and close are set only when the body holds them
OperatingHoursDoc(body) ==
    [d \in DayKeys |->
        LET given == IF Has(body, "settings") /\ Has(body.settings, "operatingHours")
                        /\ d \in DOMAIN body.settings.operatingHours
                     THEN body.settings.operatingHours[d]
                     ELSE [closed |-> FALSE]
        IN  [k \in DOMAIN given \cup {"closed"} |->
                IF k \in DOMAIN given THEN given[k] ELSE FALSE]]

\* new Franchise(body)
FranchiseDoc(body, id, now) ==
    [_id |-> id,
     name |-> body.name,
     businessId |-> body.businessId,
     address |-> [k \in DOMAIN body.address \cup {"coordinates"} |->
                    IF k = "coordinates"
                    THEN [type |-> "Point",
                          coordinates |-> Get2(body.address, "coordinates", "coordinates", <<>>)]
                    ELSE body.address[k]],
     settings |-> [timezone |-> Get2(body, "settings", "timezone", "UTC"),
                   operatingHours |-> OperatingHoursDoc(body)],
     isActive |-> Get(body, "isActive", TRUE),
     createdAt |-> Get(body, "createdAt", now),
     updatedAt |-> Get(body, "updatedAt", now)]

FranchiseValid(body) ==
    /\ RequiredStr(body, "name")
    /\ RequiredId(body, "businessId")
    /\ \A k \in {"street", "city", "state", "country", "zipCode"} :
           RequiredStr2(body, "address", k)
    /\ Has(body.address, "coordinates")
    /\ Has(body.address.coordinates, "coordinates")
    /\ body.address.coordinates.coordinates # <<>>

\* pre('save') of the four schemas: this.updatedAt = new Date()
PreSave(doc, now) == [doc EXCEPT !.updatedAt = now]

\* a document read from the store: schema defaults fill the absent paths
HydrateOrganization(d) ==
    [d EXCEPT !.settings = [timezone |-> Get(d.settings, "timezone", "UTC"),
                            currency |-> Get(d.settings, "currency", "USD")],
              !.limits = [brands |-> Get(d.limits, "brands", DefaultOrgBrands),
                          businesses |-> Get(d.limits, "businesses", DefaultOrgBusinesses)]]

HydrateBrand(d) ==
    [d EXCEPT !.limits = [businesses |-> Get(d.limits, "businesses", DefaultBrandBusinesses)]]

HydrateBusiness(d) ==
    [d EXCEPT !.subscription =
        [limits |-> [franchises |-> Get2(d.subscription, "limits", "franchises",
                                         DefaultBusinessFranchises),
                     staff |-> Get2(d.subscription, "limits", "staff",
                                    DefaultBusinessStaff)]]]

HydrateFranchise(d) ==
    [d EXCEPT !.settings = [timezone |-> Get(d.settings, "timezone", "UTC"),
                            operatingHours |-> OperatingHoursDoc(d)]]

\* findByIdAndUpdate(id, body, {new: true}): the top-level keys of the body are
\* $set as they are (a nested object replaces the stored one); the timestamps
\* option drops createdAt from the update and sets updatedAt to the current time
FindByIdAndUpdate(doc, body, now) ==
    LET set == [k \in DOMAIN body \ {"createdAt", "updatedAt"} |-> body[k]]
    IN  [k \in DOMAIN doc \cup DOMAIN set |->
            IF k = "updatedAt" THEN now
            ELSE IF k \in DOMAIN set THEN set[k] ELSE doc[k]]

\* the update casts: an ObjectId path of the body holds a well-formed id or null
UpdateCasts(body) ==
    \A k \in DOMAIN body \cap {"organizationId", "brandId", "businessId", "ownerId"} :
        CastsToObjectId(body[k])

(* ------------------------- the schema methods -------------------------- *)

\* JavaScript's a < b on numbers, null and undefined: null is 0, and a
\* comparison with undefined (NaN) is false
ToNumber(v) == IF v = NULL THEN 0 ELSE v
JsLess(a, b) == IF a = UNDEF \/ b = UNDEF THEN FALSE ELSE ToNumber(a) < ToNumber(b)
JsBool(b) == IF b THEN "true" ELSE "false"

\* a count virtual {ref, localField: '_id', foreignField, count: true} once it
\* is populated: the documents of the referenced collection that name this one
CountVirtual(coll, foreignField, id) ==
    Cardinality({c \in coll : c[foreignField] = id})

\* Organization.findById(id) and .populate('brandCount').populate('businessCount')
\* when populated; an unpopulated virtual is undefined
LoadOrganization(o, populated) ==
    [doc |-> HydrateOrganization(o),
     brandCount |-> IF populated THEN CountVirtual(brands, "organizationId", o._id)
                    ELSE UNDEF,
     businessCount |-> IF populated THEN CountVirtual(businesses, "organizationId", o._id)
                       ELSE UNDEF]

LoadBrand(b, populated) ==
    [doc |-> HydrateBrand(b),
     businessCount |-> IF populated THEN CountVirtual(businesses, "brandId", b._id)
                       ELSE UNDEF]

\* staffCount refers to the model Staff, which this service does not define:
\* the virtual is never populated
LoadBusiness(z, populated) ==
    [doc |-> HydrateBusiness(z),
     franchiseCount |-> IF populated THEN CountVirtual(franchises, "businessId", z._id)
                        ELSE UNDEF,
     staffCount |-> UNDEF]

\* organizationSchema.methods.checkLimit
OrganizationCheckLimit(this, limitType) ==
    LET limit == Get(this.doc.limits, limitType, UNDEF)
    IN  IF limit = NULL THEN TRUE
        ELSE CASE limitType = "brands" -> JsLess(this.brandCount, limit)
               [] limitType = "businesses" -> JsLess(this.businessCount, limit)
               [] OTHER -> TRUE

\* brandSchema.methods.checkLimit
BrandCheckLimit(this, limitType) ==
    LET limit == Get(this.doc.limits, limitType, UNDEF)
    IN  IF limit = NULL THEN TRUE
        ELSE CASE limitType = "businesses" -> JsLess(this.businessCount, limit)
               [] OTHER -> TRUE

\* checkLimit without the test for the unlimited sentinel
BusinessCheckLimit_NoSentinel(this, limitType) ==
    LET limit == Get(this.doc.subscription.limits, limitType, UNDEF)
    IN  CASE limitType = "franchises" -> JsLess(this.franchiseCount, limit)
          [] limitType = "staff" -> JsLess(this.staffCount, limit)
          [] OTHER -> TRUE

\* businessSchema.methods.checkLimit
BusinessCheckLimit(this, limitType) ==
    LET limit == Get(this.doc.subscription.limits, limitType, UNDEF)
    IN  IF limit = NULL THEN TRUE
        ELSE CASE limitType = "franchises" -> JsLess(this.franchiseCount, limit)
               [] limitType = "staff" -> JsLess(this.staffCount, limit)
               [] OTHER -> TRUE

NoCall == [method |-> "none", kind |-> "none", id |-> NULL, arg |-> "",
           populated |-> FALSE, result |-> ""]

\* doc.checkLimit(limitType) on the document with this _id, loaded with its
\* count virtuals populated (as the get-by-id routes load it) or not
CheckLimit(kind, id, limitType, populated) ==
    /\ CASE kind = "Organization" ->
              /\ ById(orgs, id) # {}
              /\ call' = [method |-> "checkLimit", kind |-> kind, id |-> id,
                          arg |-> limitType, populated |-> populated,
                          result |-> JsBool(OrganizationCheckLimit(
                              LoadOrganization(CHOOSE o \in orgs : o._id = id, populated),
                              limitType))]
         [] kind = "Brand" ->
              /\ ById(brands, id) # {}
              /\ call' = [method |-> "checkLimit", kind |-> kind, id |-> id,
                          arg |-> limitType, populated |-> populated,
                          result |-> JsBool(BrandCheckLimit(
                              LoadBrand(CHOOSE b \in brands : b._id = id, populated),
                              limitType))]
         [] kind = "Business" ->
              /\ ById(businesses, id) # {}
              /\ call' = [method |-> "checkLimit", kind |-> kind, id |-> id,
                          arg |-> limitType, populated |-> populated,
                          result |-> JsBool(BusinessCheckLimit(
                              LoadBusiness(CHOOSE z \in businesses : z._id = id, populated),
                              limitType))]
    /\ UNCHANGED <<orgs, brands, businesses, franchises, clock, resp, hier, hist, fault, read>>

\* the methods of the value passed as date: a Date has toTimeString, a String
\* has toLocaleLowerCase and substring
Methods(date) ==
    IF date.type = "Date" THEN {"toTimeString"} ELSE {"toLocaleLowerCase", "substring"}

\* String.prototype.toLocaleLowerCase, on the letters the inputs hold
ToLocaleLowerCase(chars) ==
    [i \in DOMAIN chars |->
        CASE chars[i] = "M" -> "m" [] chars[i] = "T" -> "t" [] OTHER -> chars[i]]

\* String.prototype.substring(from, to), from and to counted from 0
Substring(chars, from, to) ==
    SubSeq(chars, from + 1, IF to < Len(chars) THEN to ELSE Len(chars))

\* a <= b on zero-padded "HH:MM" strings, held as their four digits
StrLeq(a, b) ==
    \/ a = b
    \/ \E i \in 1..4 : a[i] < b[i] /\ \A j \in 1..(i - 1) : a[j] = b[j]

\* franchiseSchema.methods.isOpen: "TypeError" when a line throws
IsOpen(this, date) ==
    IF "toLocaleLowerCase" \notin Methods(date) THEN "TypeError"
    ELSE LET day == Substring(ToLocaleLowerCase(date.chars), 0, 3)
             hours == this.settings.operatingHours
         IN  IF day \notin DOMAIN hours THEN "TypeError"
             ELSE IF hours[day].closed THEN "false"
             ELSE IF "toTimeString" \notin Methods(date) THEN "TypeError"
             ELSE JsBool(/\ Has(hours[day], "open") /\ Has(hours[day], "close")
                         /\ StrLeq(hours[day].open, date.time)
                         /\ StrLeq(date.time, hours[day].close))

\* franchise.isOpen(date) on the franchise with this _id
CallIsOpen(id, date) ==
    /\ ById(franchises, id) # {}
    /\ call' = [method |-> "isOpen", kind |-> "Franchise", id |-> id, arg |-> date,
                populated |-> FALSE,
                result |-> IsOpen(HydrateFranchise(CHOOSE f \in franchises : f._id = id),
                                  date)]
    /\ UNCHANGED <<orgs, brands, businesses, franchises, clock, resp, hier, hist, fault, read>>

(* ----------------------- the hierarchy request ------------------------- *)

\* the handler awaits four queries (and the populate of the third); hier.pc is
\* the query it issues next
HierIdle == [pc |-> "idle", orgId |-> NULL, organization |-> {}, brands |-> {},
             businesses |-> {}]
HierInFlight == hier.pc # "idle"

\* a populated path that is null (a record, as the populated paths that are not)
PopulatedNull == [_id |-> NULL, name |-> ""]

HistNone == [seen |-> {}, queried |-> {}]

\* what a store holds for an organization: its active brands, its active
\* businesses, each with the {_id, name} of the brand it names, and the active
\* franchises of those businesses
HierarchyOf(os, brs, bzs, frs, orgId) ==
    LET bz == {z \in bzs : z.organizationId = orgId /\ z.isActive}
        brandOf(z) ==
            IF z.brandId = NULL \/ ~\E b \in brs : b._id = z.brandId THEN PopulatedNull
            ELSE LET b == CHOOSE b \in brs : b._id = z.brandId
                 IN  [_id |-> b._id, name |-> b.name]
    IN  [organization |-> {HydrateOrganization(o) : o \in {x \in os : x._id = orgId}},
         brands |-> {HydrateBrand(b) :
                        b \in {x \in brs : x.organizationId = orgId /\ x.isActive}},
         businesses |-> {[HydrateBusiness(z) EXCEPT !.brandId = brandOf(z)] : z \in bz},
         franchises |-> {HydrateFranchise(f) :
                            f \in {x \in frs : x.isActive
                                               /\ \E z \in bz : z._id = x.businessId}}]

\* history: a write that lands while the request is in flight adds what the
\* store then holds for the requested organization to what the request has
\* lived through; a response to another request ends the history of the last
\* hierarchy response
Observe ==
    hist' = IF HierInFlight
            THEN [hist EXCEPT !.seen =
                     @ \cup {HierarchyOf(orgs', brands', businesses', franchises',
                                         hier.orgId)}]
            ELSE HistNone

\* Brand.find({organizationId: orgId, isActive: true})
FindActiveBrands(coll, orgId) ==
    {HydrateBrand(b) : b \in {x \in coll : x.organizationId = orgId /\ x.isActive}}

\* Business.find({organizationId: orgId, isActive: true})
FindActiveBusinesses(coll, orgId) ==
    {HydrateBusiness(b) : b \in {x \in coll : x.organizationId = orgId /\ x.isActive}}

\* .populate('brandId', 'name'): the referenced Brand's {_id, name}, or null
\* when brandId is null or no Brand has that _id
PopulateBrandId(b, coll) ==
    IF b.brandId = NULL \/ ById(coll, b.brandId) = {}
    THEN [b EXCEPT !.brandId = PopulatedNull]
    ELSE LET br == CHOOSE x \in coll : x._id = b.brandId
         IN  [b EXCEPT !.brandId = [_id |-> br._id, name |-> br.name]]

\* the Franchise query without its isActive condition
FindFranchises_AnyState(coll, ids) ==
    {HydrateFranchise(f) : f \in {x \in coll : x.businessId \in ids}}

\* the Franchise query without its businessId condition
FindActiveFranchises_AnyBusiness(coll, ids) ==
    {HydrateFranchise(f) : f \in {x \in coll : x.isActive}}

\* Franchise.find({businessId: {$in: ids}, isActive: true})
FindActiveFranchises(coll, ids) ==
    {HydrateFranchise(f) : f \in {x \in coll : x.businessId \in ids /\ x.isActive}}

\* lines 651-657: Organization.findById(orgId), 404 when there is none; the
\* catch block answers a CastError with 500
HierarchyFindOrganization(orgId) ==
    /\ hier.pc = "idle"
    /\ IF fault # NoFault \/ ~CastsToObjectId(orgId)
       THEN /\ hier' = HierIdle
            /\ resp' = Response("hierarchy", "Organization", orgId, 500,
                                "Failed to fetch hierarchy", {})
            /\ hist' = [seen |-> {}, queried |-> {}]
       ELSE IF ById(orgs, orgId) = {}
       THEN /\ hier' = HierIdle
            /\ resp' = Response("hierarchy", "Organization", orgId, 404,
                                "Organization not found", {})
            /\ hist' = [seen |-> {}, queried |-> {"Organization"}]
       ELSE /\ hier' = [HierIdle EXCEPT
                           !.pc = "brands", !.orgId = orgId,
                           !.organization =
                               {HydrateOrganization(o) : o \in ById(orgs, orgId)}]
            /\ resp' = resp
            /\ hist' = [seen |-> {HierarchyOf(orgs, brands, businesses, franchises, orgId)},
                         queried |-> {"Organization"}]
    /\ UNCHANGED <<orgs, brands, businesses, franchises, clock, call, fault, read>>

\* lines 683-689: the catch block of the hierarchy handler
HierarchyCatch ==
    /\ hier' = HierIdle
    /\ resp' = Response("hierarchy", "Organization", hier.orgId, 500,
                        "Failed to fetch hierarchy", {})

\* lines 659-662
HierarchyFindBrands ==
    /\ hier.pc = "brands"
    /\ IF fault # NoFault
       THEN HierarchyCatch
       ELSE /\ hier' = [hier EXCEPT !.pc = "businesses",
                                    !.brands = FindActiveBrands(brands, hier.orgId)]
            /\ resp' = resp
    /\ hist' = [hist EXCEPT !.queried = @ \cup {"Brand"}]
    /\ UNCHANGED <<orgs, brands, businesses, franchises, clock, call, fault, read>>

\* lines 664-667, the find
HierarchyFindBusinesses ==
    /\ hier.pc = "businesses"
    /\ IF fault # NoFault
       THEN HierarchyCatch
       ELSE /\ hier' = [hier EXCEPT
                           !.pc = "populate",
                           !.businesses = FindActiveBusinesses(businesses, hier.orgId)]
            /\ resp' = resp
    /\ hist' = [hist EXCEPT !.queried = @ \cup {"Business"}]
    /\ UNCHANGED <<orgs, brands, businesses, franchises, clock, call, fault, read>>

\* line 667, the populate: a second query, on the Brand collection
HierarchyPopulate ==
    /\ hier.pc = "populate"
    /\ IF fault # NoFault
       THEN HierarchyCatch
       ELSE /\ hier' = [hier EXCEPT
                           !.pc = "franchises",
                           !.businesses = {PopulateBrandId(b, brands) : b \in @}]
            /\ resp' = resp
    /\ UNCHANGED <<orgs, brands, businesses, franchises, clock, hist, call, fault, read>>

\* lines 669-682: the Franchise query and the response
HierarchyFindFranchises ==
    /\ hier.pc = "franchises"
    /\ IF fault # NoFault
       THEN HierarchyCatch
       ELSE /\ resp' = Response("hierarchy", "Organization", hier.orgId, 200, "",
                                [organization |-> hier.organization,
                                 brands |-> hier.brands,
                                 businesses |-> hier.businesses,
                                 franchises |->
                                     FindActiveFranchises(
                                         franchises, {b._id : b \in hier.businesses})])
            /\ hier' = HierIdle
    /\ hist' = [hist EXCEPT !.queried = @ \cup {"Franchise"}]
    /\ UNCHANGED <<orgs, brands, businesses, franchises, clock, call, fault, read>>

(* ------------------------- the write handlers -------------------------- *)

\* POST /api/organizations: dt is the time that passes between new
\* Organization(body), which reads the clock for the defaults, and the
\* pre('save') hook
CreateOrganization(body, dt) ==
    /\ Cardinality(orgs) < MaxDocs /\ StoreSize < MaxStore
    /\ clock + dt <= MaxClock
    /\ clock' = clock + dt
    /\ IF /\ fault = NoFault /\ OrganizationValid(body)
          /\ ~DuplicateDomain(orgs, OrganizationDoc(body, NewId(orgs), clock))
       THEN LET doc == PreSave(OrganizationDoc(body, NewId(orgs), clock), clock + dt)
            IN  /\ orgs' = orgs \cup {doc}
                /\ resp' = Response("create", "Organization", doc._id, 201, "", {doc})
       ELSE /\ orgs' = orgs
            /\ resp' = Response("create", "Organization", NULL, 500,
                                "Failed to create organization", {})
    /\ UNCHANGED <<brands, businesses, franchises, hier, call, fault, read>>
    /\ Observe

\* POST /api/brands
CreateBrand(body, dt) ==
    /\ Cardinality(brands) < MaxDocs /\ StoreSize < MaxStore
    /\ clock + dt <= MaxClock
    /\ clock' = clock + dt
    /\ IF fault = NoFault /\ BrandValid(body)
       THEN LET doc == PreSave(BrandDoc(body, NewId(brands), clock), clock + dt)
            IN  /\ brands' = brands \cup {doc}
                /\ resp' = Response("create", "Brand", doc._id, 201, "", {doc})
       ELSE /\ brands' = brands
            /\ resp' = Response("create", "Brand", NULL, 500,
                                "Failed to create brand", {})
    /\ UNCHANGED <<orgs, businesses, franchises, hier, call, fault, read>>
    /\ Observe

\* POST /api/businesses
CreateBusiness(body, dt) ==
    /\ Cardinality(businesses) < MaxDocs /\ StoreSize < MaxStore
    /\ clock + dt <= MaxClock
    /\ clock' = clock + dt
    /\ IF fault = NoFault /\ BusinessValid(body)
       THEN LET doc == PreSave(BusinessDoc(body, NewId(businesses), clock), clock + dt)
            IN  /\ businesses' = businesses \cup {doc}
                /\ resp' = Response("create", "Business", doc._id, 201, "", {doc})
       ELSE /\ businesses' = businesses
            /\ resp' = Response("create", "Business", NULL, 500,
                                "Failed to create business", {})
    /\ UNCHANGED <<orgs, brands, franchises, hier, call, fault, read>>
    /\ Observe

\* POST /api/franchises
CreateFranchise(body, dt) ==
    /\ Cardinality(franchises) < MaxDocs /\ StoreSize < MaxStore
    /\ clock + dt <= MaxClock
    /\ clock' = clock + dt
    /\ IF fault = NoFault /\ FranchiseValid(body)
       THEN LET doc == PreSave(FranchiseDoc(body, NewId(franchises), clock), clock + dt)
            IN  /\ franchises' = franchises \cup {doc}
                /\ resp' = Response("create", "Franchise", doc._id, 201, "", {doc})
       ELSE /\ franchises' = franchises
            /\ resp' = Response("create", "Franchise", NULL, 500,
                                "Failed to create franchise", {})
    /\ UNCHANGED <<orgs, brands, businesses, hier, call, fault, read>>
    /\ Observe

\* the cast of the update of an organization: the setters of domain run on
\* the value the body holds for it
CastOrganizationUpdate(body) ==
    [k \in DOMAIN body |-> IF k = "domain" THEN CastDomain(body[k]) ELSE body[k]]

\* an update of an organization that also rewrites its brands and businesses
UpdateOrganization_Cascade(id, body) ==
    /\ ById(orgs, id) # {}
    /\ LET old == CHOOSE d \in orgs : d._id = id
           new == FindByIdAndUpdate(old, body, clock)
       IN  /\ orgs' = (orgs \ {old}) \cup {new}
           /\ brands' = {IF b.organizationId = id
                         THEN FindByIdAndUpdate(b, body, clock) ELSE b : b \in brands}
           /\ businesses' = {IF z.organizationId = id
                             THEN FindByIdAndUpdate(z, body, clock) ELSE z :
                             z \in businesses}
           /\ resp' = Response("update", "Organization", id, 200, "",
                               {HydrateOrganization(new)})
    /\ UNCHANGED <<franchises, clock, hier, call, fault, read>>
    /\ Observe

\* PUT /api/organizations/:id
UpdateOrganization(id, body) ==
    /\ IF \/ fault # NoFault \/ ~CastsToObjectId(id) \/ ~UpdateCasts(body)
          \/ \E old \in ById(orgs, id) :
                 DuplicateDomain(orgs, FindByIdAndUpdate(old, CastOrganizationUpdate(body),
                                                         clock))
       THEN /\ orgs' = orgs
            /\ resp' = Response("update", "Organization", id, 500,
                                "Failed to update organization", {})
       ELSE IF ById(orgs, id) = {}
       THEN /\ orgs' = orgs
            /\ resp' = Response("update", "Organization", id, 404,
                                "Organization not found", {})
       ELSE LET old == CHOOSE d \in orgs : d._id = id
                new == FindByIdAndUpdate(old, CastOrganizationUpdate(body), clock)
            IN  /\ orgs' = (orgs \ {old}) \cup {new}
                /\ resp' = Response("update", "Organization", id, 200, "",
                                    {HydrateOrganization(new)})
    /\ UNCHANGED <<brands, businesses, franchises, clock, hier, call, fault, read>>
    /\ Observe

\* an update of a business that also rewrites the franchises of the business
UpdateBusiness_Cascade(id, body) ==
    /\ ById(businesses, id) # {}
    /\ LET old == CHOOSE d \in businesses : d._id = id
           new == FindByIdAndUpdate(old, body, clock)
       IN  /\ businesses' = (businesses \ {old}) \cup {new}
           /\ franchises' = {IF f.businessId = id
                             THEN FindByIdAndUpdate(f, body, clock) ELSE f :
                             f \in franchises}
           /\ resp' = Response("update", "Business", id, 200, "",
                               {HydrateBusiness(new)})
    /\ UNCHANGED <<orgs, brands, clock, hier, call, fault, read>>
    /\ Observe

\* PUT /api/businesses/:id
UpdateBusiness(id, body) ==
    /\ IF fault # NoFault \/ ~CastsToObjectId(id) \/ ~UpdateCasts(body)
       THEN /\ businesses' = businesses
            /\ resp' = Response("update", "Business", id, 500,
                                "Failed to update business", {})
       ELSE IF ById(businesses, id) = {}
       THEN /\ businesses' = businesses
            /\ resp' = Response("update", "Business", id, 404,
                                "Business not found", {})
       ELSE LET old == CHOOSE d \in businesses : d._id = id
                new == FindByIdAndUpdate(old, body, clock)
            IN  /\ businesses' = (businesses \ {old}) \cup {new}
                /\ resp' = Response("update", "Business", id, 200, "",
                                    {HydrateBusiness(new)})
    /\ UNCHANGED <<orgs, brands, franchises, clock, hier, call, fault, read>>
    /\ Observe

\* PUT /api/franchises/:id
UpdateFranchise(id, body) ==
    /\ IF fault # NoFault \/ ~CastsToObjectId(id) \/ ~UpdateCasts(body)
       THEN /\ franchises' = franchises
            /\ resp' = Response("update", "Franchise", id, 500,
                                "Failed to update franchise", {})
       ELSE IF ById(franchises, id) = {}
       THEN /\ franchises' = franchises
            /\ resp' = Response("update", "Franchise", id, 404,
                                "Franchise not found", {})
       ELSE LET old == CHOOSE d \in franchises : d._id = id
                new == FindByIdAndUpdate(old, body, clock)
            IN  /\ franchises' = (franchises \ {old}) \cup {new}
                /\ resp' = Response("update", "Franchise", id, 200, "",
                                    {HydrateFranchise(new)})
    /\ UNCHANGED <<orgs, brands, businesses, clock, hier, call, fault, read>>
    /\ Observe

\* a millisecond passes
Tick ==
    /\ clock < MaxClock
    /\ clock' = clock + 1
    /\ UNCHANGED <<orgs, brands, businesses, franchises, resp, hier, hist, call, fault, read>>

(* -------------------------- the read handlers -------------------------- *)

\* the models the service imports and registers (lines 227-230); Staff, Form
\* and User are registered nowhere
Registered == {"Organization", "Brand", "Business", "Franchise"}

\* populate of paths that refer to these models, on a result that holds
\* documents, rejects with MissingSchemaError when one is not registered
PopulateRejects(docs, refs) == docs # {} /\ ~(refs \subseteq Registered)

\* req.query: isActive is the string of the URL, limit and offset are what
\* parseInt makes of theirs, with the defaults 50 and 0
QueryLimit(q) == Get(q, "limit", 50)
QueryOffset(q) == Get(q, "offset", 0)

\* if (isActive !== undefined) filter.isActive = isActive === 'true'
MatchesIsActive(d, q) == Has(q, "isActive") => (d.isActive = (q.isActive = "true"))

\* every order of the finite set S in which no element stands before one
\* that the key puts strictly first: the orders a sort may return, equal keys
\* in any order; key maps each element to its rank, least first
Sorted(S, key) ==
    {s \in [1..Cardinality(S) -> S] :
        /\ \A i, j \in 1..Cardinality(S) : i # j => s[i] # s[j]
        /\ \A i, j \in 1..Cardinality(S) : i < j => key[s[i]] <= key[s[j]]}

\* sort({createdAt: -1}) and sort({name: 1}), as ranks of the loaded documents
NameRank(n) == CASE n = "a" -> 1 [] n = "b" -> 2 [] OTHER -> 3
NewestFirst(S) == [x \in S |-> 0 - x.doc.createdAt]
ByName(S) == [x \in S |-> NameRank(x.name)]
ByDocName(S) == [x \in S |-> NameRank(x.doc.name)]

\* a page cut by the limit before the skip
Page_LimitThenSkip(sorted, limit, offset) ==
    SubSeq(SubSeq(sorted, 1, IF limit = 0 \/ limit > Len(sorted) THEN Len(sorted)
                             ELSE limit),
           offset + 1,
           IF limit = 0 \/ limit > Len(sorted) THEN Len(sorted) ELSE limit)

\* .skip(offset).limit(limit) of a sorted result: limit 0 is no limit
Page(sorted, limit, offset) ==
    SubSeq(sorted, offset + 1,
           IF limit = 0 \/ offset + limit > Len(sorted) THEN Len(sorted)
           ELSE offset + limit)

\* the documents of a page
Items(page) == {page[i] : i \in DOMAIN page}

\* res.json({success: true, data, count: data.length})
Listing(items) == [items |-> items, count |-> Len(items)]

\* a read of organizations awaits the find and then the count query of each
\* populated virtual; read holds the route, its id or its query, the documents
\* found and the virtuals whose query is still to be issued
ReadIdle == [op |-> "none", id |-> NULL, q |-> <<>>, items |-> <<>>, pending |-> {}]
ReadInFlight == read.op # "none"

\* the error of the catch of the route that read.op names
ReadError(op) ==
    IF op = "get" THEN "Failed to fetch organization" ELSE "Failed to fetch organizations"

\* the answer of the route once every virtual is populated
ReadAnswer(op, id, items) ==
    IF op = "get" THEN Response("get", "Organization", id, 200, "", Items(items))
    ELSE Response("list", "Organization", NULL, 200, "", Listing(items))

\* GET /api/organizations: Organization.find(filter) sorted, skipped and
\* limited; the populates follow on the documents of the page
ListOrganizations(q) ==
    /\ ~ReadInFlight
    /\ IF fault # NoFault
       THEN /\ resp' = Response("list", "Organization", NULL, 500,
                                "Failed to fetch organizations", {})
            /\ read' = read
       ELSE \E sorted \in
                   LET found == {LoadOrganization(o, FALSE) :
                                    o \in {x \in orgs : MatchesIsActive(x, q)}}
                   IN  Sorted(found, NewestFirst(found)) :
               LET page == Page(sorted, QueryLimit(q), QueryOffset(q))
               IN  IF page = <<>>
                   THEN /\ resp' = ReadAnswer("list", NULL, page)
                        /\ read' = read
                   ELSE /\ resp' = resp
                        /\ read' = [op |-> "list", id |-> NULL, q |-> q, items |-> page,
                                    pending |-> {"brandCount", "businessCount"}]
    /\ UNCHANGED <<orgs, brands, businesses, franchises, clock, hier, hist, call, fault>>

\* the get of an organization with a catch that answers the error's message
GetOrganization_Leaks(id) ==
    /\ ~ReadInFlight
    /\ IF fault # NoFault
       THEN /\ resp' = Response("get", "Organization", id, 500, fault, {})
            /\ read' = read
       ELSE IF ById(orgs, id) = {}
       THEN /\ resp' = Response("get", "Organization", id, 404,
                                "Organization not found", {})
            /\ read' = read
       ELSE /\ resp' = resp
            /\ read' = [op |-> "get", id |-> id, q |-> <<>>,
                        items |-> <<LoadOrganization(CHOOSE o \in orgs : o._id = id,
                                                     FALSE)>>,
                        pending |-> {"brandCount", "businessCount"}]
    /\ UNCHANGED <<orgs, brands, businesses, franchises, clock, hier, hist, call, fault>>

\* GET /api/organizations/:id: Organization.findById(id); the populates follow
\* when a document is found
GetOrganization(id) ==
    /\ ~ReadInFlight
    /\ IF fault # NoFault \/ ~CastsToObjectId(id)
       THEN /\ resp' = Response("get", "Organization", id, 500,
                                "Failed to fetch organization", {})
            /\ read' = read
       ELSE IF ById(orgs, id) = {}
       THEN /\ resp' = Response("get", "Organization", id, 404,
                                "Organization not found", {})
            /\ read' = read
       ELSE /\ resp' = resp
            /\ read' = [op |-> "get", id |-> id, q |-> <<>>,
                        items |-> <<LoadOrganization(CHOOSE o \in orgs : o._id = id,
                                                     FALSE)>>,
                        pending |-> {"brandCount", "businessCount"}]
    /\ UNCHANGED <<orgs, brands, businesses, franchises, clock, hier, hist, call, fault>>

\* the count query of one populated virtual of the read in flight, on the
\* collection it refers to: it fills the virtual of every document found, and
\* the route answers after the last one; a failing query ends in the catch
PopulateCount(path, coll) ==
    /\ ReadInFlight /\ path \in read.pending
    /\ IF fault # NoFault
       THEN /\ resp' = Response(read.op, "Organization", read.id, 500,
                                ReadError(read.op), {})
            /\ read' = ReadIdle
       ELSE LET filled == [i \in DOMAIN read.items |->
                              [read.items[i] EXCEPT
                                  ![path] = CountVirtual(coll, "organizationId",
                                                         read.items[i].doc._id)]]
            IN  IF read.pending = {path}
                THEN /\ resp' = ReadAnswer(read.op, read.id, filled)
                     /\ read' = ReadIdle
                ELSE /\ resp' = resp
                     /\ read' = [read EXCEPT !.items = filled,
                                             !.pending = read.pending \ {path}]
    /\ UNCHANGED <<orgs, brands, businesses, franchises, clock, hier, hist, call, fault>>

\* .populate('brandCount') and .populate('businessCount')
PopulateBrandCount == PopulateCount("brandCount", brands)
PopulateBusinessCount == PopulateCount("businessCount", businesses)

\* GET /api/organizations/:orgId/brands
ListBrands(orgId) ==
    /\ IF fault # NoFault \/ ~CastsToObjectId(orgId)
       THEN resp' = Response("list", "Brand", orgId, 500, "Failed to fetch brands", {})
       ELSE \E sorted \in Sorted(FindActiveBrands(brands, orgId),
                                 ByName(FindActiveBrands(brands, orgId))) :
               resp' = Response("list", "Brand", orgId, 200, "", Listing(sorted))
    /\ UNCHANGED <<orgs, brands, businesses, franchises, clock, hier, hist, call, fault, read>>

\* if (brandId) filter.brandId = brandId, and the cast of the filter: a
\* brandId that is no ObjectId is a CastError
CastsBrandId(q) == Has(q, "brandId") => CastsToObjectId(q.brandId)

\* GET /api/organizations/:orgId/businesses: the find sorts, skips and limits,
\* and the populate of staffCount on the documents of the page refers to Staff
ListBusinesses(orgId, q) ==
    /\ LET found == {x \in businesses :
                        /\ x.organizationId = orgId
                        /\ Has(q, "brandId") => x.brandId = q.brandId
                        /\ MatchesIsActive(x, q)}
           loaded == {LoadBusiness(PopulateBrandId(z, brands), TRUE) : z \in found}
       IN  IF fault # NoFault \/ ~CastsToObjectId(orgId) \/ ~CastsBrandId(q)
           THEN resp' = Response("list", "Business", orgId, 500,
                                 "Failed to fetch businesses", {})
           ELSE \E sorted \in Sorted(loaded, NewestFirst(loaded)) :
                   LET page == Page(sorted, QueryLimit(q), QueryOffset(q))
                   IN  resp' =
                         IF PopulateRejects(Items(page), {"Brand", "Franchise", "Staff"})
                         THEN Response("list", "Business", orgId, 500,
                                       "Failed to fetch businesses", {})
                         ELSE Response("list", "Business", orgId, 200, "",
                                       Listing(page))
    /\ UNCHANGED <<orgs, brands, businesses, franchises, clock, hier, hist, call, fault, read>>

\* GET /api/businesses/:id
GetBusiness(id) ==
    /\ IF \/ fault # NoFault \/ ~CastsToObjectId(id)
          \/ PopulateRejects(ById(businesses, id), {"Brand", "Franchise", "Staff"})
       THEN resp' = Response("get", "Business", id, 500, "Failed to fetch business", {})
       ELSE IF ById(businesses, id) = {}
       THEN resp' = Response("get", "Business", id, 404, "Business not found", {})
       ELSE resp' = Response("get", "Business", id, 200, "",
                             {LoadBusiness(PopulateBrandId(z, brands), TRUE) :
                                 z \in ById(businesses, id)})
    /\ UNCHANGED <<orgs, brands, businesses, franchises, clock, hier, hist, call, fault, read>>

\* GET /api/businesses/:businessId/franchises: the find sorts, skips and
\* limits, and the populates on the documents of the page refer to User, Staff
\* and Form
ListFranchises(businessId, q) ==
    /\ LET found == {x \in franchises :
                        x.businessId = businessId /\ MatchesIsActive(x, q)}
           loaded == {[doc |-> HydrateFranchise(f)] : f \in found}
       IN  IF fault # NoFault \/ ~CastsToObjectId(businessId)
           THEN resp' = Response("list", "Franchise", businessId, 500,
                                 "Failed to fetch franchises", {})
           ELSE \E sorted \in Sorted(loaded, ByDocName(loaded)) :
                   LET page == Page(sorted, QueryLimit(q), QueryOffset(q))
                   IN  resp' =
                         IF PopulateRejects(Items(page), {"User", "Staff", "Form"})
                         THEN Response("list", "Franchise", businessId, 500,
                                       "Failed to fetch franchises", {})
                         ELSE Response("list", "Franchise", businessId, 200, "",
                                       Listing(page))
    /\ UNCHANGED <<orgs, brands, businesses, franchises, clock, hier, hist, call, fault, read>>

\* GET /api/franchises/:id
GetFranchise(id) ==
    /\ IF \/ fault # NoFault \/ ~CastsToObjectId(id)
          \/ PopulateRejects(ById(franchises, id), {"User", "Staff", "Form"})
       THEN resp' = Response("get", "Franchise", id, 500, "Failed to fetch franchise", {})
       ELSE IF ById(franchises, id) = {}
       THEN resp' = Response("get", "Franchise", id, 404, "Franchise not found", {})
       ELSE resp' = Response("get", "Franchise", id, 200, "",
                             {[doc |-> HydrateFranchise(f)] : f \in ById(franchises, id)})
    /\ UNCHANGED <<orgs, brands, businesses, franchises, clock, hier, hist, call, fault, read>>

\* GET /ready: the ping of the database; its catch answers 503 with the
\* message of the error
Ready ==
    /\ resp' = IF fault # NoFault
               THEN Response("ready", "none", NULL, 503, fault, {})
               ELSE Response("ready", "none", NULL, 200, "", {})
    /\ UNCHANGED <<orgs, brands, businesses, franchises, clock, hier, hist, call, fault, read>>

\* the database starts to fail queries with this error, or answers again
StoreFails(error) ==
    /\ fault' = error
    /\ UNCHANGED <<orgs, brands, businesses, franchises, clock, resp, hier, hist, call, read>>

(* ------------------------------ inputs --------------------------------- *)

\* the ObjectIds a request names: those the collections hand out
Ids == 1..MaxDocs

Address == [street |-> "s", city |-> "c", state |-> "st", country |-> "co",
            zipCode |-> "z",
            coordinates |-> [type |-> "Point", coordinates |-> <<0, 0>>]]

OrgBody == [name |-> "a", contact |-> [email |-> "e"]]
\* the same with a domain (lowercase, trimmed), and both
OrgBodyOfDomain == [name |-> "a", contact |-> [email |-> "e"], domain |-> <<"d">>]
OrgBodies == {OrgBody, OrgBodyOfDomain}
BrandBody(orgId) == [name |-> "a", organizationId |-> orgId]
BusinessBody(orgId) ==
    [name |-> "a", organizationId |-> orgId, ownerId |-> 1,
     industry |-> "retail", contact |-> [email |-> "e"]]
FranchiseBody(bizId) == [name |-> "a", businessId |-> bizId, address |-> Address]

\* r and the key k with value v
With(r, k, v) == [x \in DOMAIN r \cup {k} |-> IF x = k THEN v ELSE r[x]]

(* --------------------- the service under requests ---------------------- *)

Init ==
    /\ orgs = {}
    /\ brands = {}
    /\ businesses = {}
    /\ franchises = {}
    /\ clock = 0
    /\ resp = NoResponse
    /\ hier = HierIdle
    /\ hist = HistNone
    /\ call = NoCall /\ fault = NoFault /\ read = ReadIdle

\* creates of the four kinds, soft deletes and restores, and one hierarchy
\* request at a time, interleaved with them
Next ==
    \/ \E body \in OrgBodies : CreateOrganization(body, 0)
    \/ \E o \in Ids : CreateBrand(BrandBody(o), 0)
    \/ \E o \in Ids, b \in {NULL, 1} :
           CreateBusiness(With(BusinessBody(o), "brandId", b), 0)
    \/ \E z \in Ids : CreateFranchise(FranchiseBody(z), 0)
    \/ \E id \in Ids, a \in BOOLEAN : UpdateBusiness(id, [isActive |-> a])
    \/ \E id \in Ids, a \in BOOLEAN : UpdateFranchise(id, [isActive |-> a])
    \/ \E o \in Ids \cup {BADID} : HierarchyFindOrganization(o)
    \/ HierarchyFindBrands
    \/ HierarchyFindBusinesses
    \/ HierarchyPopulate
    \/ HierarchyFindFranchises

Spec == Init /\ [][Next]_vars

(* ---------------------- checkLimit on its inputs ----------------------- *)

\* the limits a body sets: unlimited, or a cap
LimitValues == {NULL} \cup (0..MaxChildren)

\* n children, those of active being active
Children(n, active, Body(_), Doc(_, _, _)) ==
    {Doc(With(Body(1), "isActive", i \in active), i, 0) : i \in 1..n}

\* a parent whose limit is l, with up to MaxChildren children of the limited
\* type, any of them soft-deleted
InitLimit ==
    /\ clock = 0 /\ resp = NoResponse /\ hier = HierIdle /\ hist = HistNone
    /\ call = NoCall /\ fault = NoFault /\ read = ReadIdle
    /\ \E l \in LimitValues, n \in 0..MaxChildren :
       \E active \in SUBSET (1..n) :
       \E case \in {"org-brands", "org-businesses", "brand-businesses",
                    "business-franchises"} :
          /\ orgs = {OrganizationDoc(
                        With(OrgBody, "limits",
                             IF case = "org-brands" THEN [brands |-> l]
                             ELSE IF case = "org-businesses" THEN [businesses |-> l]
                             ELSE [brands |-> 1]),
                        1, 0)}
          /\ brands =
               IF case = "org-brands" THEN Children(n, active, BrandBody, BrandDoc)
               ELSE IF case = "brand-businesses"
               THEN {BrandDoc(With(BrandBody(1), "limits", [businesses |-> l]), 1, 0)}
               ELSE {}
          /\ businesses =
               IF case = "org-businesses"
               THEN Children(n, active, BusinessBody, BusinessDoc)
               ELSE IF case = "brand-businesses"
               THEN Children(n, active,
                             LAMBDA o : With(BusinessBody(o), "brandId", 1), BusinessDoc)
               ELSE IF case = "business-franchises"
               THEN {BusinessDoc(With(BusinessBody(1), "subscription",
                                      [limits |-> [franchises |-> l]]), 1, 0)}
               ELSE {}
          /\ franchises =
               IF case = "business-franchises"
               THEN Children(n, active, FranchiseBody, FranchiseDoc)
               ELSE {}

NextLimit ==
    \E kind \in {"Organization", "Brand", "Business"}, populated \in BOOLEAN :
    \E limitType \in {"brands", "businesses", "franchises", "staff", "users"} :
        CheckLimit(kind, 1, limitType, populated)

SpecLimit == InitLimit /\ [][NextLimit]_vars

(* ------------------------ isOpen on its inputs ------------------------- *)

\* "09:00", "12:00", "17:00", "20:00"
Times == {<<0, 9, 0, 0>>, <<1, 2, 0, 0>>, <<1, 7, 0, 0>>, <<2, 0, 0, 0>>}

\* new Date(...) on a Monday or a Tuesday at one of Times, and the strings
\* "Monday" and "tuesday"
Dates ==
    {[type |-> "Date", day |-> d, time |-> t] : d \in {Monday, Tuesday}, t \in Times}
        \cup {[type |-> "String", chars |-> <<"M", "o", "n", "d", "a", "y">>],
              [type |-> "String", chars |-> Tuesday]}

\* one franchise, its Monday hours set by the body that created it
InitIsOpen ==
    /\ clock = 0 /\ resp = NoResponse /\ hier = HierIdle /\ hist = HistNone
    /\ call = NoCall /\ fault = NoFault /\ read = ReadIdle
    /\ orgs = {OrganizationDoc(OrgBody, 1, 0)}
    /\ brands = {}
    /\ businesses = {BusinessDoc(BusinessBody(1), 1, 0)}
    /\ \E open \in Times, close \in Times, closed \in BOOLEAN :
          franchises =
              {FranchiseDoc(
                   With(FranchiseBody(1), "settings",
                        [operatingHours |->
                            (Monday :> [open |-> open, close |-> close,
                                        closed |-> closed])]),
                   1, 0)}

NextIsOpen == \E date \in Dates : CallIsOpen(1, date)

SpecIsOpen == InitIsOpen /\ [][NextIsOpen]_vars

(* ----------------------- creates and updates -------------------------- *)

OrgCreateBodies ==
    {With(OrgBody, "settings", [timezone |-> "CET", currency |-> "EUR"]),
     With(With(OrgBodyOfDomain, "createdAt", 0), "updatedAt", 0)}

OrgUpdateBodies ==
    {[settings |-> [timezone |-> "PST"]],
     [name |-> "b", createdAt |-> 0, updatedAt |-> 0],
     [domain |-> <<" ", "D">>]}

BusinessUpdateBodies ==
    {[contact |-> [phone |-> "p"]],
     [subscription |-> [limits |-> [staff |-> 2]]]}

FranchiseUpdateBodies ==
    {[name |-> "b"],
     [settings |-> [timezone |-> "CET"]]}

\* elapsed milliseconds between the constructor and the pre('save') hook
Delays == {0, 1}

\* creates and partial updates of organizations, businesses and franchises,
\* while time passes
NextUpdate ==
    \/ \E body \in OrgCreateBodies, dt \in Delays : CreateOrganization(body, dt)
    \/ \E dt \in Delays :
           CreateBusiness(With(BusinessBody(1), "subscription",
                               [limits |-> [franchises |-> 2]]), dt)
    \/ \E dt \in Delays : CreateFranchise(FranchiseBody(1), dt)
    \/ \E id \in Ids, body \in OrgUpdateBodies : UpdateOrganization(id, body)
    \/ \E id \in Ids, body \in BusinessUpdateBodies : UpdateBusiness(id, body)
    \/ \E id \in Ids, body \in FranchiseUpdateBodies : UpdateFranchise(id, body)
    \/ Tick

SpecUpdate == Init /\ [][NextUpdate]_vars

(* ----------------------- the routes of the API ------------------------- *)

\* req.body values of the create routes: complete ones, and ones that lack a
\* required path or hold an industry outside the enum
OrgApiBodies ==
    {OrgBody, OrgBodyOfDomain, [name |-> "a"], [contact |-> [email |-> "e"]]}
BrandApiBodies ==
    {BrandBody(1), [name |-> "a"]}
BusinessApiBodies ==
    {BusinessBody(1), With(BusinessBody(1), "industry", "mining"),
     [x \in DOMAIN BusinessBody(1) \ {"ownerId"} |-> BusinessBody(1)[x]]}
FranchiseApiBodies ==
    {FranchiseBody(1),
     With(FranchiseBody(1), "address",
          [x \in DOMAIN Address \ {"zipCode"} |-> Address[x]]),
     With(FranchiseBody(1), "address",
          [x \in DOMAIN Address \ {"coordinates"} |-> Address[x]])}

\* ids of a request path: ObjectIds, and a string that is none
PathIds == Ids \cup {BADID}

\* req.query values: the isActive filter
Filters == {<<>>, [isActive |-> "true"], [isActive |-> "false"]}

\* req.query values of the listings of businesses and franchises: a filter,
\* an offset, a brandId that is an ObjectId and one that is none
ChildQueries == Filters \cup {[offset |-> 1], [brandId |-> 1], [brandId |-> BADID]}

\* the errors a failing database raises
StoreErrors == {"ECONNRESET", "EAUTH"}

\* every route but the hierarchy, with malformed ids and incomplete bodies,
\* and soft deletes among the updates
NextApi ==
    \/ \E body \in OrgApiBodies : CreateOrganization(body, 0)
    \/ \E body \in BrandApiBodies : CreateBrand(body, 0)
    \/ \E body \in BusinessApiBodies : CreateBusiness(body, 0)
    \/ \E body \in FranchiseApiBodies : CreateFranchise(body, 0)
    \/ \E id \in PathIds : UpdateOrganization(id, [isActive |-> FALSE])
    \/ \E id \in PathIds : UpdateBusiness(id, [isActive |-> FALSE])
    \/ \E id \in PathIds : UpdateFranchise(id, [isActive |-> FALSE])
    \/ \E id \in PathIds : GetOrganization(id)
    \/ \E id \in PathIds : GetBusiness(id)
    \/ \E id \in PathIds : GetFranchise(id)
    \/ \E q \in Filters : ListOrganizations(q)
    \/ PopulateBrandCount
    \/ PopulateBusinessCount
    \/ \E id \in PathIds : ListBrands(id)
    \/ \E id \in PathIds, q \in ChildQueries : ListBusinesses(id, q)
    \/ \E id \in PathIds, q \in ChildQueries : ListFranchises(id, q)
    \/ Ready

SpecApi == Init /\ [][NextApi]_vars

(* ------------------------ a failing database -------------------------- *)

\* a store of one organization and one business
InitFault ==
    /\ orgs = {OrganizationDoc(OrgBody, 1, 0)}
    /\ brands = {}
    /\ businesses = {BusinessDoc(BusinessBody(1), 1, 0)}
    /\ franchises = {}
    /\ clock = 0 /\ resp = NoResponse /\ hier = HierIdle /\ hist = HistNone
    /\ call = NoCall /\ fault = NoFault /\ read = ReadIdle

\* requests of every route, while the database fails with one error or
\* another, or answers; a read of organizations and a hierarchy request are
\* not in flight together, the writes land between the queries of either
NextFault ==
    \/ \E e \in StoreErrors \cup {NoFault} : StoreFails(e)
    \/ CreateOrganization(OrgBodyOfDomain, 0)
    \/ CreateBrand(BrandBody(1), 0)
    \/ CreateBusiness(BusinessBody(1), 0)
    \/ CreateFranchise(FranchiseBody(1), 0)
    \/ UpdateOrganization(1, [isActive |-> FALSE])
    \/ UpdateBusiness(1, [isActive |-> FALSE])
    \/ UpdateFranchise(1, [isActive |-> FALSE])
    \/ ~HierInFlight /\ GetOrganization(1)
    \/ GetBusiness(1)
    \/ GetFranchise(1)
    \/ ~HierInFlight /\ ListOrganizations(<<>>)
    \/ PopulateBrandCount
    \/ PopulateBusinessCount
    \/ ListBrands(1)
    \/ ListBusinesses(1, <<>>)
    \/ ListFranchises(1, <<>>)
    \/ ~ReadInFlight /\ HierarchyFindOrganization(1)
    \/ HierarchyFindBrands
    \/ HierarchyFindBusinesses
    \/ HierarchyPopulate
    \/ HierarchyFindFranchises
    \/ Ready

SpecFault == InitFault /\ [][NextFault]_vars

(* ---------------------- pages of organizations ------------------------- *)

\* req.query values of GET /api/organizations: filter, limit and offset
Queries ==
    {[x \in keys |-> CASE x = "isActive" -> "true" [] x = "limit" -> l
                       [] x = "offset" -> o] :
        keys \in SUBSET {"isActive", "limit", "offset"}, l \in 0..2, o \in 0..1}

\* organizations created as time passes, some soft-deleted, and listings
NextList ==
    \/ \E body \in OrgBodies : CreateOrganization(body, 0)
    \/ \E id \in Ids : UpdateOrganization(id, [isActive |-> FALSE])
    \/ \E q \in Queries : ListOrganizations(q)
    \/ PopulateBrandCount
    \/ PopulateBusinessCount
    \/ Tick

SpecList == Init /\ [][NextList]_vars

(* ------------------------------ claims --------------------------------- *)

\* the documents a step stores that the collection did not hold before
Created(old, new) == {d \in new : ~\E x \in old : x._id = d._id}

\* the parent reference id resolves, in collection coll, to a document that
\* is not soft-deleted
Resolves(coll, id) == \E p \in coll : p._id = id /\ p.isActive

\* C1: every Brand, Business and Franchise a step stores names a parent
\* (organizationId, brandId when it is not null, businessId) that exists and is
\* active in the store the create ran on; a create whose parent reference does
\* not resolve stores nothing.
C1_ParentResolvesAtCreate ==
    [][/\ \A b \in Created(brands, brands') : Resolves(orgs, b.organizationId)
       /\ \A z \in Created(businesses, businesses') :
              /\ Resolves(orgs, z.organizationId)
              /\ z.brandId # NULL => Resolves(brands, z.brandId)
       /\ \A f \in Created(franchises, franchises') :
              Resolves(businesses, f.businessId)]_vars

\* the active documents of coll whose field names the parent id
ActiveChildren(coll, field, id) == {c \in coll : c[field] = id /\ c.isActive}

\* C2: in every reachable state the active children of a parent with a finite
\* limit do not outnumber the limit: brands and businesses of an Organization,
\* businesses of a Brand, franchises of a Business.
C2_ChildrenWithinLimits ==
    /\ \A o \in orgs :
         LET l == HydrateOrganization(o).limits
         IN  /\ l.brands # NULL =>
                  Cardinality(ActiveChildren(brands, "organizationId", o._id)) <= l.brands
             /\ l.businesses # NULL =>
                  Cardinality(ActiveChildren(businesses, "organizationId", o._id))
                      <= l.businesses
    /\ \A b \in brands :
         LET l == HydrateBrand(b).limits
         IN  l.businesses # NULL =>
                 Cardinality(ActiveChildren(businesses, "brandId", b._id)) <= l.businesses
    /\ \A z \in businesses :
         LET l == HydrateBusiness(z).subscription.limits
         IN  l.franchises # NULL =>
                 Cardinality(ActiveChildren(franchises, "businessId", z._id))
                     <= l.franchises

\* the limit the store configures for the entity and limit type of the last
\* checkLimit call, and the collection and field of the children it limits
CallLimit ==
    CASE call.kind = "Organization" ->
             HydrateOrganization(CHOOSE o \in orgs : o._id = call.id).limits[call.arg]
      [] call.kind = "Brand" ->
             HydrateBrand(CHOOSE b \in brands : b._id = call.id).limits[call.arg]
      [] call.kind = "Business" ->
             HydrateBusiness(CHOOSE z \in businesses : z._id = call.id)
                 .subscription.limits[call.arg]
CallActiveChildren ==
    CASE call.kind = "Organization" /\ call.arg = "brands" ->
             ActiveChildren(brands, "organizationId", call.id)
      [] call.kind = "Organization" /\ call.arg = "businesses" ->
             ActiveChildren(businesses, "organizationId", call.id)
      [] call.kind = "Brand" /\ call.arg = "businesses" ->
             ActiveChildren(businesses, "brandId", call.id)
      [] call.kind = "Business" /\ call.arg = "franchises" ->
             ActiveChildren(franchises, "businessId", call.id)
\* the limit types checkLimit supports whose children this service stores
CallSupported ==
    /\ call.method = "checkLimit"
    /\ <<call.kind, call.arg>> \in
          {<<"Organization", "brands">>, <<"Organization", "businesses">>,
           <<"Brand", "businesses">>, <<"Business", "franchises">>}
\* the limit types an entity configures
CallConfigured ==
    /\ call.method = "checkLimit"
    /\ <<call.kind, call.arg>> \in
          {<<"Organization", "brands">>, <<"Organization", "businesses">>,
           <<"Brand", "businesses">>, <<"Business", "franchises">>,
           <<"Business", "staff">>}

\* C3: for a supported limit type with a finite limit, checkLimit on a
\* document loaded with its counts is true exactly when the active children
\* of that type are fewer than the limit; soft-deleted children do not count.
C3_CheckLimitCountsActive ==
    (CallSupported /\ call.populated /\ CallLimit # NULL) =>
        call.result = JsBool(Cardinality(CallActiveChildren) < CallLimit)

\* C4: checkLimit is true for every entity and limit type whose limit is the
\* unlimited sentinel, however many children there are and whether or not the
\* counts were loaded.
C4_UnlimitedIsTrue ==
    (CallConfigured /\ CallLimit = NULL) => call.result = "true"

\* C4 happens: an unlimited entity with MaxChildren active children was asked
C4_Witness ==
    /\ CallSupported /\ call.populated /\ CallLimit = NULL
    /\ Cardinality(CallActiveChildren) = MaxChildren
    /\ call.result = "true"

\* the last response answers a hierarchy request, and none is in flight
HierarchyAnswered == resp.op = "hierarchy" /\ hier.pc = "idle"

\* C5: when no write changed what the store holds for the organization while
\* the request ran, a 200 response holds exactly the active brands of the
\* organization, its active businesses, branded or not, and the active
\* franchises of the returned businesses.
C5_HierarchyExact ==
    (HierarchyAnswered /\ resp.status = 200 /\ Cardinality(hist.seen) = 1) =>
        /\ resp.data.brands =
               {HydrateBrand(b) : b \in ActiveChildren(brands, "organizationId", resp.id)}
        /\ {z._id : z \in resp.data.businesses} =
               {z._id : z \in ActiveChildren(businesses, "organizationId", resp.id)}
        /\ resp.data.franchises =
               {HydrateFranchise(f) :
                   f \in {x \in franchises :
                            /\ x.isActive
                            /\ x.businessId \in {z._id : z \in resp.data.businesses}}}
        /\ resp.data = HierarchyOf(orgs, brands, businesses, franchises, resp.id)

\* C5 happens: an undisturbed request answered with a business of the
\* organization and a franchise of that business
C5_Witness ==
    /\ HierarchyAnswered /\ resp.status = 200 /\ Cardinality(hist.seen) = 1
    /\ resp.data.organization # {}
    /\ resp.data.businesses # {} /\ resp.data.franchises # {}

\* C6: a hierarchy request for an id that identifies no stored Organization is
\* answered 404 with no data, and queries neither Brand, Business nor Franchise.
C6_UnknownOrgIsNotFound ==
    (resp.op = "hierarchy" /\ ~\E o \in orgs : o._id = resp.id) =>
        /\ resp.status = 404
        /\ resp.data = {}
        /\ (hier.pc = "idle" => hist.queried \subseteq {"Organization"})

\* a business as the find returns it, before the populate
Unpopulated(zs) == {[x \in DOMAIN z \ {"brandId"} |-> z[x]] : z \in zs}

\* C7: every write changes at most one document of the store, and each of
\* the Brand and Business reads of a hierarchy response is the read of one
\* store the request lived through (the reads together need not be: see the
\* witness).
C7_ReadsAreSingleStateEach ==
    /\ [](HierarchyAnswered /\ resp.status = 200 =>
            /\ \E h \in hist.seen : resp.data.brands = h.brands
            /\ \E h \in hist.seen :
                   Unpopulated(resp.data.businesses) = Unpopulated(h.businesses))
    /\ [][Cardinality((orgs' \ orgs) \cup (brands' \ brands)
                      \cup (businesses' \ businesses) \cup (franchises' \ franchises))
              <= 1
          /\ Cardinality((orgs \ orgs') \cup (brands \ brands')
                         \cup (businesses \ businesses') \cup (franchises \ franchises'))
              <= 1]_vars

\* C7 happens: a 200 response that is the hierarchy of no store the request
\* lived through: it returns a business with its brand, a brand of the same
\* organization, which the list of brands read earlier lacks
C7_TornResponse ==
    /\ HierarchyAnswered /\ resp.status = 200
    /\ resp.data \notin hist.seen
    /\ \E z \in resp.data.businesses :
          /\ z.brandId # PopulatedNull
          /\ z.brandId._id \notin {b._id : b \in resp.data.brands}
          /\ \E b \in brands :
                b._id = z.brandId._id /\ b.organizationId = resp.id /\ b.isActive

\* C8: isOpen on a date selects the hours of the date's weekday; it is false
\* when that day is closed, and otherwise true exactly when
\* open <= HH:MM <= close, both bounds included.
C8_IsOpenFollowsHours ==
    (call.method = "isOpen" /\ call.arg.type = "Date") =>
        LET this == HydrateFranchise(CHOOSE f \in franchises : f._id = call.id)
            entry == this.settings.operatingHours[call.arg.day]
        IN  (Has(entry, "open") /\ Has(entry, "close")) =>
                call.result = JsBool(/\ ~entry.closed
                                     /\ StrLeq(entry.open, call.arg.time)
                                     /\ StrLeq(call.arg.time, entry.close))

\* the value of r at the path p of keys: {v}, or {} when r has no such path
RECURSIVE ValueAt(_, _)
ValueAt(r, p) ==
    IF p = <<>> THEN {r}
    ELSE IF Head(p) \in DOMAIN r THEN ValueAt(r[Head(p)], Tail(p))
    ELSE {}

\* the fields of each entity, but updatedAt, down to the sub-fields of their
\* nested structures
OrganizationPaths ==
    {<<"name">>, <<"domain">>, <<"contact", "email">>, <<"settings", "timezone">>,
     <<"settings", "currency">>, <<"limits", "brands">>, <<"limits", "businesses">>,
     <<"isActive">>, <<"createdAt">>}
BusinessPaths ==
    {<<"name">>, <<"organizationId">>, <<"brandId">>, <<"ownerId">>, <<"industry">>,
     <<"contact", "email">>, <<"contact", "phone">>,
     <<"subscription", "limits", "franchises">>, <<"subscription", "limits", "staff">>,
     <<"isActive">>, <<"createdAt">>}
FranchisePaths ==
    {<<"name">>, <<"businessId">>, <<"address", "street">>, <<"address", "city">>,
     <<"address", "state">>, <<"address", "country">>, <<"address", "zipCode">>,
     <<"address", "coordinates">>, <<"settings", "timezone">>,
     <<"settings", "operatingHours">>, <<"isActive">>, <<"createdAt">>}

\* every path the payload lacks has the same value in old and in new
Untouched(old, new, body, paths) ==
    \A p \in paths : ValueAt(body, p) = {} => ValueAt(new, p) = ValueAt(old, p)

\* the document with this _id, as a read returns it
Read(coll, id, Hydrate(_)) == Hydrate(CHOOSE d \in coll : d._id = id)

\* C9: a successful update of an Organization, Business or Franchise leaves
\* every field the payload does not hold, sub-fields of nested structures
\* included, with the value it had before the update.
C9_AbsentFieldsUntouched ==
    [][\A id \in Ids :
          /\ \A body \in OrgUpdateBodies :
                (UpdateOrganization(id, body) /\ resp'.status = 200) =>
                    Untouched(Read(orgs, id, HydrateOrganization),
                              Read(orgs', id, HydrateOrganization),
                              body, OrganizationPaths)
          /\ \A body \in BusinessUpdateBodies :
                (UpdateBusiness(id, body) /\ resp'.status = 200) =>
                    Untouched(Read(businesses, id, HydrateBusiness),
                              Read(businesses', id, HydrateBusiness),
                              body, BusinessPaths)
          /\ \A body \in FranchiseUpdateBodies :
                (UpdateFranchise(id, body) /\ resp'.status = 200) =>
                    Untouched(Read(franchises, id, HydrateFranchise),
                              Read(franchises', id, HydrateFranchise),
                              body, FranchisePaths)]_vars

\* the documents of all four collections, each with its kind
Documents(os, brs, bzs, frs) ==
    {<<"Organization", d._id, d.updatedAt>> : d \in os}
        \cup {<<"Brand", d._id, d.updatedAt>> : d \in brs}
        \cup {<<"Business", d._id, d.updatedAt>> : d \in bzs}
        \cup {<<"Franchise", d._id, d.updatedAt>> : d \in frs}

\* C10: the entity a successful create returns has createdAt = updatedAt, and
\* a successful update sets updatedAt of its entity to the time of the update,
\* never to an earlier time than it held, whatever the payload.
C10_Timestamps ==
    /\ []((resp.op = "create" /\ resp.status = 201) =>
            \A d \in resp.data : d.createdAt = d.updatedAt)
    /\ [][(resp'.op = "update" /\ resp'.status = 200 /\ resp' # resp) =>
            \A before \in Documents(orgs, brands, businesses, franchises),
               after \in Documents(orgs', brands', businesses', franchises') :
                (before[1] = after[1] /\ before[2] = after[2]) =>
                    /\ after[3] >= before[3]
                    /\ (after[1] = resp'.kind /\ after[2] = resp'.id) =>
                           after[3] = clock']_vars

\* the soft-deleted document of coll with this _id: a set of zero or one
SoftDeleted(coll, id) == {d \in coll : d._id = id /\ ~d.isActive}

\* the step answers GET /api/organizations/:id: at the find, or at the last
\* populate of a document found
AnswersGetOrganization(id) ==
    /\ \/ GetOrganization(id)
       \/ /\ PopulateBrandCount \/ PopulateBusinessCount
          /\ read.op = "get" /\ read.id = id
    /\ ~ReadInFlight'

\* the step answers GET /api/organizations with this query
AnswersListOrganizations(q) ==
    /\ \/ ListOrganizations(q)
       \/ /\ PopulateBrandCount \/ PopulateBusinessCount
          /\ read.op = "list" /\ read.q = q
    /\ ~ReadInFlight'

\* the organizations of the read as they are loaded so far: in flight, or in
\* the 200 response
Loaded ==
    IF ReadInFlight THEN Items(read.items)
    ELSE IF resp.kind = "Organization" /\ resp.status = 200 /\ resp.op = "get"
    THEN resp.data
    ELSE IF resp.kind = "Organization" /\ resp.status = 200 /\ resp.op = "list"
    THEN Items(resp.data.items)
    ELSE {}

\* after a populate of the count at path, every organization loaded holds the
\* number of the active children the collection has for it at that query
CountsActive(path, coll) ==
    \A d \in Loaded' :
       d[path] = Cardinality(ActiveChildren(coll, "organizationId", d.doc._id))

\* C11: an entity with isActive = false is still returned by getById on its
\* id, never appears in the listing of the brands of an organization, and is
\* never counted in brandCount, businessCount or franchiseCount of its parent.
C11_SoftDeletedHiddenNotCounted ==
    [][\A id \in Ids :
          /\ (AnswersGetOrganization(id) /\ SoftDeleted(orgs, id) # {}) =>
                 resp'.status = 200 /\ {d.doc._id : d \in resp'.data} = {id}
          /\ (GetBusiness(id) /\ SoftDeleted(businesses, id) # {}) =>
                 resp'.status = 200 /\ {d.doc._id : d \in resp'.data} = {id}
          /\ (GetFranchise(id) /\ SoftDeleted(franchises, id) # {}) =>
                 resp'.status = 200 /\ {d.doc._id : d \in resp'.data} = {id}
          /\ (ListBrands(id) /\ resp'.status = 200) =>
                 \A i \in 1..resp'.data.count : resp'.data.items[i].isActive
          /\ (PopulateBrandCount /\ read.op = "get" /\ read.id = id) =>
                 CountsActive("brandCount", brands)
          /\ (PopulateBusinessCount /\ read.op = "get" /\ read.id = id) =>
                 CountsActive("businessCount", businesses)
          /\ (GetBusiness(id) /\ resp'.status = 200) =>
                 \A d \in resp'.data :
                    d.franchiseCount =
                        Cardinality(ActiveChildren(franchises, "businessId", id))]_vars

\* the isActive=false filter of a listing
OnlyInactive == [isActive |-> "false"]

\* C12: a listing of organizations, of the businesses of an organization or of
\* the franchises of a business with the filter isActive=false holds no
\* soft-deleted entity, and its derived counts count no soft-deleted child.
C12_InactiveFilterExcludesSoftDeleted ==
    [][/\ (AnswersListOrganizations(OnlyInactive) /\ resp'.status = 200) =>
              \A i \in 1..resp'.data.count : resp'.data.items[i].doc.isActive
       /\ (PopulateBrandCount /\ read.op = "list" /\ read.q = OnlyInactive) =>
              CountsActive("brandCount", brands)
       /\ (PopulateBusinessCount /\ read.op = "list" /\ read.q = OnlyInactive) =>
              CountsActive("businessCount", businesses)
       /\ \A id \in Ids :
             /\ (ListBusinesses(id, OnlyInactive) /\ resp'.status = 200) =>
                    \A i \in 1..resp'.data.count :
                       LET d == resp'.data.items[i]
                       IN  /\ d.doc.isActive
                           /\ d.franchiseCount =
                                  Cardinality(ActiveChildren(franchises, "businessId",
                                                             d.doc._id))
             /\ (ListFranchises(id, OnlyInactive) /\ resp'.status = 200) =>
                    \A i \in 1..resp'.data.count :
                       resp'.data.items[i].doc.isActive]_vars

\* the paths each create requires, as the claim lists them
RequiredOfOrganization == {<<"name">>, <<"contact", "email">>}
RequiredOfBrand == {<<"name">>, <<"organizationId">>}
RequiredOfBusiness ==
    {<<"name">>, <<"organizationId">>, <<"ownerId">>, <<"industry">>,
     <<"contact", "email">>}
RequiredOfFranchise ==
    {<<"name">>, <<"businessId">>, <<"address", "street">>, <<"address", "city">>,
     <<"address", "state">>, <<"address", "country">>, <<"address", "zipCode">>,
     <<"address", "coordinates">>}

\* the body lacks one of the paths
Lacks(body, paths) == \E p \in paths : ValueAt(body, p) = {}

\* the response to a request that fails validation, and its effect
Rejected400 ==
    /\ resp'.status = 400 /\ ~resp'.success /\ resp'.error # ""
    /\ store' = store

\* C13: a create whose body lacks a required field, or holds an industry
\* outside the enumerated set, is answered 400 with {success: false, error}
\* and stores nothing.
C13_InvalidCreateIs400 ==
    [][/\ \A body \in OrgApiBodies :
             (CreateOrganization(body, 0) /\ Lacks(body, RequiredOfOrganization))
                 => Rejected400
       /\ \A body \in BrandApiBodies :
             (CreateBrand(body, 0) /\ Lacks(body, RequiredOfBrand)) => Rejected400
       /\ \A body \in BusinessApiBodies :
             (CreateBusiness(body, 0)
              /\ (Lacks(body, RequiredOfBusiness) \/ body.industry \notin Industries))
                 => Rejected400
       /\ \A body \in FranchiseApiBodies :
             (CreateFranchise(body, 0) /\ Lacks(body, RequiredOfFranchise))
                 => Rejected400]_vars

\* no document of coll has this id
Unknown(coll, id) == \A d \in coll : d._id # id

\* the response NotFound
NotFound404 == resp'.status = 404 /\ ~resp'.success /\ resp'.data = {}

\* C14: getById on an id that matches no stored entity is answered 404 with
\* a failure body, for organizations, businesses and franchises.
C14_GetUnknownIs404 ==
    [][\A id \in PathIds :
          /\ (GetOrganization(id) /\ Unknown(orgs, id)) => NotFound404
          /\ (GetBusiness(id) /\ Unknown(businesses, id)) => NotFound404
          /\ (GetFranchise(id) /\ Unknown(franchises, id)) => NotFound404]_vars

\* C15: an update on an id that matches no stored entity is answered 404 and
\* changes no document of the store: none is created, none is modified.
C15_UpdateUnknownIs404 ==
    [][\A id \in PathIds :
          /\ (UpdateOrganization(id, [isActive |-> FALSE]) /\ Unknown(orgs, id)) =>
                 NotFound404 /\ store' = store
          /\ (UpdateBusiness(id, [isActive |-> FALSE]) /\ Unknown(businesses, id)) =>
                 NotFound404 /\ store' = store
          /\ (UpdateFranchise(id, [isActive |-> FALSE]) /\ Unknown(franchises, id)) =>
                 NotFound404 /\ store' = store]_vars

\* the one message each route answers a failure of the database with
GenericMessage(op, kind) ==
    CASE op = "hierarchy" -> "Failed to fetch hierarchy"
      [] op = "list" /\ kind = "Organization" -> "Failed to fetch organizations"
      [] op = "list" /\ kind = "Brand" -> "Failed to fetch brands"
      [] op = "list" /\ kind = "Business" -> "Failed to fetch businesses"
      [] op = "list" /\ kind = "Franchise" -> "Failed to fetch franchises"
      [] op = "get" /\ kind = "Organization" -> "Failed to fetch organization"
      [] op = "get" /\ kind = "Business" -> "Failed to fetch business"
      [] op = "get" /\ kind = "Franchise" -> "Failed to fetch franchise"
      [] op = "create" /\ kind = "Organization" -> "Failed to create organization"
      [] op = "create" /\ kind = "Brand" -> "Failed to create brand"
      [] op = "create" /\ kind = "Business" -> "Failed to create business"
      [] op = "create" /\ kind = "Franchise" -> "Failed to create franchise"
      [] op = "update" /\ kind = "Organization" -> "Failed to update organization"
      [] op = "update" /\ kind = "Business" -> "Failed to update business"
      [] op = "update" /\ kind = "Franchise" -> "Failed to update franchise"
      [] OTHER -> "Internal server error"

\* a route of the API (not the readiness probe) answers in this step
ApiAnswers == resp' # resp /\ resp'.op # "ready"

\* C16: a request of the API that queries the database while it fails is
\* answered 500 with success = false, no data and the fixed message of its
\* route, whatever the error of the database is; the store is unchanged.
C16_StoreFailureIsGeneric500 ==
    [][(ApiAnswers /\ fault # NoFault) =>
          /\ resp'.status = 500 /\ ~resp'.success /\ resp'.data = {}
          /\ resp'.error = GenericMessage(resp'.op, resp'.kind)
          /\ resp'.error \notin StoreErrors
          /\ store' = store]_vars

\* C16 happens: a hierarchy request that had read the organization, and a
\* create, each answered 500 while the database fails
C16_Witness ==
    /\ fault \in StoreErrors
    /\ resp.status = 500
    /\ \/ resp.op = "hierarchy" /\ "Organization" \in hist.queried
       \/ resp.op = "create"

\* the organizations a query's filter matches, as a find reads them
Matching(q) ==
    {HydrateOrganization(o) :
        o \in {x \in orgs : "isActive" \in DOMAIN q => x.isActive = (q.isActive = "true")}}

\* the orders of S with createdAt never increasing from one place to the next
NewestFirstOrders(S) ==
    {s \in [1..Cardinality(S) -> S] :
        /\ \A i, j \in 1..Cardinality(S) : i # j => s[i] # s[j]
        /\ \A i \in 1..(Cardinality(S) - 1) : s[i].createdAt >= s[i + 1].createdAt}

\* seq without its first n elements, and the first n elements of seq
Drop(seq, n) == SubSeq(seq, n + 1, Len(seq))
Take(seq, n) == SubSeq(seq, 1, IF n < Len(seq) THEN n ELSE Len(seq))

\* limit and offset of a query, 50 and 0 when it names none
LimitOf(q) == IF "limit" \in DOMAIN q THEN q.limit ELSE 50
OffsetOf(q) == IF "offset" \in DOMAIN q THEN q.offset ELSE 0

\* the documents of a page of loaded organizations
DocsOf(items) == [i \in DOMAIN items |-> items[i].doc]

\* the page the find of a listing returned: the one the populates work on,
\* or the empty one of the response
PageFound == IF ReadInFlight THEN read.items ELSE resp.data.items

\* the step answers a listing of organizations with the page of its find
AnswersPage ==
    /\ resp'.op = "list" /\ resp'.kind = "Organization" /\ resp'.status = 200
    /\ ReadInFlight => DocsOf(resp'.data.items) = DocsOf(read.items)
    /\ resp'.data.count = Len(resp'.data.items)

\* C17 as stated: a listing of organizations is the organizations that match
\* at its find, ordered newest first, without the first offset of them, cut to
\* at most limit, and count is the number of entities of the page.
C17_PageAtMostLimit ==
    [][\A q \in Queries :
          /\ ListOrganizations(q) =>
                \E ordered \in NewestFirstOrders(Matching(q)) :
                   DocsOf(PageFound') = Take(Drop(ordered, OffsetOf(q)), LimitOf(q))
          /\ AnswersListOrganizations(q) => AnswersPage]_vars

\* C17 amended: the same for a limit of 1 or more; a limit of 0 cuts nothing,
\* and the page is all the matching organizations after the first offset.
C17_PageOfNewestFirst ==
    [][\A q \in Queries :
          /\ ListOrganizations(q) =>
                \E ordered \in NewestFirstOrders(Matching(q)) :
                   DocsOf(PageFound') =
                       IF LimitOf(q) = 0 THEN Drop(ordered, OffsetOf(q))
                       ELSE Take(Drop(ordered, OffsetOf(q)), LimitOf(q))
          /\ AnswersListOrganizations(q) => AnswersPage]_vars

\* C17 happens: of two active organizations created at different times a
\* listing with offset 1 was answered with the older one alone: the newest was
\* skipped after the sort
C17_Witness ==
    /\ resp.op = "list" /\ resp.kind = "Organization" /\ resp.status = 200
    /\ Cardinality(orgs) = 2 /\ \A o \in orgs : o.isActive
    /\ resp.data.count = 1
    /\ \E o \in orgs : o.createdAt > resp.data.items[1].doc.createdAt

\* C18: in every 200 response of the hierarchy, whatever writes ran between
\* its reads, each franchise names a business of the response, and each brand
\* and business names the requested organization.
C18_HierarchyRefersWithin ==
    (HierarchyAnswered /\ resp.status = 200) =>
        /\ \A f \in resp.data.franchises :
              \E z \in resp.data.businesses : f.businessId = z._id
        /\ \A b \in resp.data.brands : b.organizationId = resp.id
        /\ \A z \in resp.data.businesses : z.organizationId = resp.id

\* C18 happens: a response with a franchise, to a request during which the
\* store changed what it holds for the organization
C18_Witness ==
    /\ HierarchyAnswered /\ resp.status = 200
    /\ Cardinality(hist.seen) > 1
    /\ resp.data.franchises # {}

\* the collection of each kind, before and after a step
CollectionOf(kind, os, brs, bzs, frs) ==
    CASE kind = "Organization" -> os [] kind = "Brand" -> brs
      [] kind = "Business" -> bzs [] kind = "Franchise" -> frs

Kinds == {"Organization", "Brand", "Business", "Franchise"}

\* C19: a step that answers an update request changes no document but the
\* one of the request's kind and id, and creates and removes none: children
\* keep isActive and every other field when their parent is soft-deleted.
C19_UpdateTouchesOneDocument ==
    [][(resp' # resp /\ resp'.op = "update") =>
          \A kind \in Kinds :
             LET before == CollectionOf(kind, orgs, brands, businesses, franchises)
                 after == CollectionOf(kind, orgs', brands', businesses', franchises')
             IN  /\ {d._id : d \in before} = {d._id : d \in after}
                 /\ \A d \in before :
                       (kind # resp'.kind \/ d._id # resp'.id) => d \in after]_vars

\* C19 happens: the update that soft-deleted an organization was answered,
\* and a business of the organization is active
C19_Witness ==
    /\ resp.op = "update" /\ resp.kind = "Organization" /\ resp.status = 200
    /\ \E o \in orgs :
          /\ o._id = resp.id /\ ~o.isActive
          /\ \E z \in businesses : z.organizationId = o._id /\ z.isActive

====
